---------------------------- MODULE Spec2Model ----------------------------
(***************************************************************************)
(* A model of ARColorize (src/code/ar_colorize.py): the colour selection   *)
(* (hex_to_bgr, set_color, the preset keys), the compositor                *)
(* (apply_color_overlay), the segmenter (detect_wall) and the per-frame    *)
(* transform (process_frame) as the camera loop of start_camera drives it. *)
(*                                                                         *)
(* Strings are sequences of one-character strings.  An image is a function *)
(* from pixel positions <<y, x>> to a pixel; a colour pixel is a triple    *)
(* <<b, g, r>> of 8-bit channels, a gray pixel or mask pixel a number.     *)
(***************************************************************************)
EXTENDS Integers, Sequences, FiniteSets, TLC

VARIABLES
    pc,              \* where the modelled caller / camera loop stands
    selected_color,  \* self.selected_color
    assigned,        \* ghost: self.selected_color was assigned after __init__
    hex_color,       \* set_color's argument while a call is in progress
    color_before,    \* ghost: self.selected_color when set_color was entered
    outcome,         \* "none", "ok" or the exception the last call raised
    camera,          \* which family of frames the capture source yields
    heap,            \* the ndarray buffers: buffer id -> contents
    frame,           \* the caller's frame variable: a buffer id
    result,          \* apply_color_overlay's / process_frame's result: a buffer id
    frame_in,        \* ghost: contents of the frame when the call was entered
    mask,            \* the mask handed to apply_color_overlay
    color,           \* the colour handed to apply_color_overlay
    alpha,           \* the alpha handed to apply_color_overlay, in tenths
    edges_dilated,   \* detect_wall's local edges_dilated (kept for inspection)
    color_reads,     \* ghost: reads of self.selected_color by this process_frame
    written          \* ghost: every value ever stored in self.selected_color

vars == <<pc, selected_color, assigned, hex_color, color_before, outcome,
          camera, heap, frame, result, frame_in, mask, color, alpha,
          edges_dilated, color_reads, written>>

frameVars == <<camera, heap, frame, result, frame_in, mask, color, alpha,
               edges_dilated, color_reads, written>>

(***************************************************************************)
(* Python values                                                           *)
(***************************************************************************)
\* A call's result: the value it returned, or the exception it raised.
Returns(v) == [exc |-> "", val |-> v]
Raises(e) == [exc |-> e, val |-> << >>]

ValueError == "ValueError"
TypeError == "TypeError"

\* A name bound to no array, tuple or buffer.
None == << >>
NoBuffer == << >>

\* The same function, tabulated: TLC otherwise keeps a function constructor
\* as an expression and evaluates its body again at every application.
Tabulated(f) == f @@ << >>

Min(a, b) == IF a < b THEN a ELSE b
Max(a, b) == IF a > b THEN a ELSE b
Abs(a) == IF a < 0 THEN -a ELSE a

\* str[i:j] for 0 <= i <= j: the slice is clipped to the string, never an error.
Slice(s, i, j) == SubSeq(s, i + 1, Min(j, Len(s)))

\* str.lstrip('#'): every leading '#' goes, not only the first.
RECURSIVE LStripHash(_)
LStripHash(s) ==
    IF s # << >> /\ Head(s) = "#" THEN LStripHash(Tail(s)) ELSE s

HexDigits == <<"0", "1", "2", "3", "4", "5", "6", "7", "8", "9",
               "A", "B", "C", "D", "E", "F">>
HexDigitsLower == <<"0", "1", "2", "3", "4", "5", "6", "7", "8", "9",
                    "a", "b", "c", "d", "e", "f">>

IsHexDigit(c) == \E i \in 1..16 : HexDigits[i] = c \/ HexDigitsLower[i] = c

HexDigitValue(c) ==
    (CHOOSE i \in 1..16 : HexDigits[i] = c \/ HexDigitsLower[i] = c) - 1

Whitespace == {" ", "\t", "\n"}

RECURSIVE LStripSpace(_)
LStripSpace(s) ==
    IF s # << >> /\ Head(s) \in Whitespace THEN LStripSpace(Tail(s)) ELSE s

RECURSIVE RStripSpace(_)
RStripSpace(s) ==
    IF s # << >> /\ s[Len(s)] \in Whitespace
    THEN RStripSpace(SubSeq(s, 1, Len(s) - 1))
    ELSE s

\* The digits of an int literal: hex digits, single underscores between them.
DigitsWellFormed(d) ==
    /\ d # << >>
    /\ \A i \in 1..Len(d) : IsHexDigit(d[i]) \/ d[i] = "_"
    /\ d[Len(d)] # "_"
    /\ \A i \in 1..Len(d) - 1 : d[i] = "_" => d[i + 1] # "_"

RECURSIVE DigitsValue(_, _)
DigitsValue(d, acc) ==
    IF d = << >> THEN acc
    ELSE IF Head(d) = "_" THEN DigitsValue(Tail(d), acc)
    ELSE DigitsValue(Tail(d), 16 * acc + HexDigitValue(Head(d)))

\* int(s, 16): surrounding whitespace, one optional sign, an optional 0x
\* prefix (which may be followed by one underscore), then the digits.
\* Anything else raises ValueError.
PyIntBase16(s) ==
    LET t == RStripSpace(LStripSpace(s))
        signed == t # << >> /\ Head(t) \in {"+", "-"}
        u == IF signed THEN Tail(t) ELSE t
        prefixed == Len(u) >= 2 /\ u[1] = "0" /\ u[2] \in {"x", "X"}
        v == IF prefixed THEN SubSeq(u, 3, Len(u)) ELSE u
        d == IF prefixed /\ v # << >> /\ Head(v) = "_" THEN Tail(v) ELSE v
    IN  IF ~DigitsWellFormed(d) \/ (~prefixed /\ Head(d) = "_")
        THEN Raises(ValueError)
        ELSE IF signed /\ Head(t) = "-"
             THEN Returns(-DigitsValue(d, 0))
             ELSE Returns(DigitsValue(d, 0))

\* A mutant of hex_to_bgr: the channels are returned in RGB order.
hex_to_rgb(h) ==
    LET s == LStripHash(h)
        rgb == [k \in 1..3 |-> PyIntBase16(Slice(s, 2 * (k - 1), 2 * k))]
    IN  IF \E k \in 1..3 : rgb[k].exc # ""
        THEN Raises(ValueError)
        ELSE Returns(<<rgb[1].val, rgb[2].val, rgb[3].val>>)

\* ARColorize.hex_to_bgr: the three 2-character slices at 0, 2 and 4 of the
\* stripped string, each through int(., 16); the first failing int raises.
hex_to_bgr(h) ==
    LET s == LStripHash(h)
        rgb == [k \in 1..3 |-> PyIntBase16(Slice(s, 2 * (k - 1), 2 * k))]
    IN  IF \E k \in 1..3 : rgb[k].exc # ""
        THEN Raises(ValueError)
        ELSE Returns(<<rgb[3].val, rgb[2].val, rgb[1].val>>)

White == <<255, 255, 255>>

\* A mutant of StoreOrRaise: the colour is reset before the string is parsed.
\* A mutant of StoreColor: the store is observable after its first channel.
StoreColorTorn(old, new) == <<new[1], old[2], old[3]>>

\* An attribute store rebinds self.selected_color to the whole new tuple.
StoreColor(old, new) == new

\* A mutant of StoreOrRaise: the colour is reset before the string is parsed.
StoreOrReset(old, parsed) ==
    IF parsed.exc # "" THEN <<0, 0, 0>> ELSE StoreColor(old, parsed.val)

\* self.selected_color = self.hex_to_bgr(hex_color): the attribute is
\* assigned only when hex_to_bgr returned; an exception leaves it alone.
StoreOrRaise(old, parsed) ==
    IF parsed.exc # "" THEN old ELSE StoreColor(old, parsed.val)

(***************************************************************************)
(* The strings handed to set_color                                         *)
(***************************************************************************)
MaxLen == 7

Alphabet == {"F", "Z", "-"}

HashPrefixes == {<< >>, <<"#">>, <<"#", "#">>}

RECURSIVE StringsOfLen(_)
StringsOfLen(n) ==
    IF n = 0 THEN {<< >>}
    ELSE {Append(s, c) : s \in StringsOfLen(n - 1), c \in Alphabet}

Bodies == UNION {StringsOfLen(n) : n \in 0..MaxLen}

\* The palette of app.py (get_colors) and the cases the specification names.
SampleStrings ==
    { <<"#", "F", "F", "7", "F", "5", "0">>,
      <<"f", "f", "7", "f", "5", "0">>,
      <<"#", "8", "7", "C", "E", "E", "B">>,
      <<"Z", "Z", "Z", "Z", "Z", "Z">>,
      <<"F", "F", "7", "F", "5", "0", "F", "F">>,
      <<" ", "F", "+", "7", "5", " ">>,
      <<"0", "x", "F", "F", "F", "F">>,
      <<"1", "_", "F", "F", "F", "F">> }

HexStrings == {p \o b : p \in HashPrefixes, b \in Bodies} \cup SampleStrings

(***************************************************************************)
(* set_color, called from the command line (main) or a UI layer            *)
(***************************************************************************)
InitColorState ==
    /\ selected_color = White
    /\ assigned = FALSE
    /\ hex_color = << >>
    /\ color_before = White

InitNoFrame ==
    /\ camera = "none"
    /\ heap = [b \in {"cam", "res"} |-> NoBuffer]
    /\ frame = "cam"
    /\ result = None
    /\ frame_in = NoBuffer
    /\ mask = None
    /\ color = None
    /\ alpha = 7
    /\ edges_dilated = None
    /\ color_reads = 0
    /\ written = {White}

InitColor ==
    /\ pc = "idle"
    /\ outcome = "none"
    /\ InitColorState
    /\ InitNoFrame

\* The caller enters set_color(h).
CallSetColor ==
    /\ pc = "idle"
    /\ \E h \in HexStrings : hex_color' = h
    /\ color_before' = selected_color
    /\ outcome' = "none"
    /\ pc' = "set_color"
    /\ UNCHANGED <<selected_color, assigned>>
    /\ UNCHANGED frameVars

\* The body of set_color.
SetColor ==
    /\ pc = "set_color"
    /\ LET parsed == hex_to_bgr(hex_color)
       IN  /\ selected_color' = StoreOrRaise(selected_color, parsed)
           /\ assigned' = (assigned \/ parsed.exc = "")
           /\ outcome' = IF parsed.exc # "" THEN parsed.exc ELSE "ok"
    /\ pc' = "returned"
    /\ UNCHANGED <<hex_color, color_before>>
    /\ UNCHANGED frameVars

\* The caller has seen the result; the argument goes out of scope.
ReturnSetColor ==
    /\ pc = "returned"
    /\ pc' = "idle"
    /\ hex_color' = << >>
    /\ outcome' = "none"
    /\ color_before' = selected_color
    /\ UNCHANGED <<selected_color, assigned>>
    /\ UNCHANGED frameVars

NextColor == CallSetColor \/ SetColor \/ ReturnSetColor

SpecColor == InitColor /\ [][NextColor]_vars

(***************************************************************************)
(* apply_color_overlay                                                     *)
(***************************************************************************)
\* The pixels a boolean index mask > 0 selects.
Selected(m) == {p \in DOMAIN m : m[p] > 0}

\* saturate_cast<uchar>.
Saturate(v) == Max(0, Min(255, v))

\* One element of cv2.addWeighted(src1, 1 - alpha, src2, alpha, 0) on
\* uint8 data, alpha = a / 10: the weighted sum rounded to the nearest
\* integer and saturated.  alpha and 1 - alpha are binary floating-point
\* numbers, so a sum that lies exactly half-way in exact arithmetic is
\* computed a little above or below it: such a pair <<o, c>> rounds the way
\* the oracle up says, the same way everywhere in one call.
AddWeighted(o, c, a, up) ==
    LET num == (10 - a) * o + a * c
        q == num \div 10
        r == num % 10
    IN  Saturate(IF r < 5 THEN q
                 ELSE IF r > 5 THEN q + 1
                 ELSE IF <<o, c>> \in up THEN q + 1 ELSE q)

\* The pairs of one call whose weighted sum lies half-way.
TiePairs(f, m, col, a) ==
    {oc \in {<<f[p][k], col[k]>> : p \in Selected(m), k \in 1..3} :
        ((10 - a) * oc[1] + a * oc[2]) % 10 = 5}

\* np.ndarray.copy(): a buffer of its own.  A mutant returns the argument.
NdarrayAlias(ref) == ref

NdarrayCopy(ref) == "res"

\* A mutant of BlendPixel: the weights of frame and overlay are exchanged.
BlendPixelSwapped(o, col, a, up) ==
    [k \in 1..3 |-> AddWeighted(col[k], o[k], a, {<<oc[2], oc[1]>> : oc \in up})]

\* One row of frame[mask > 0] against one row of overlay[mask > 0], which
\* holds color in every selected row (lines 60-61).
BlendPixel(o, col, a, up) == [k \in 1..3 |-> AddWeighted(o[k], col[k], a, up)]

\* A mutant of Overlaid: the blend is written to every pixel.
OverlaidEverywhere(f, m, col, a, up) ==
    [p \in DOMAIN f |-> BlendPixel(f[p], col, a, up)]

\* result = frame.copy(); result[mask > 0] = the blended rows.
Overlaid(f, m, col, a, up) ==
    [p \in DOMAIN f |-> IF m[p] > 0 THEN BlendPixel(f[p], col, a, up) ELSE f[p]]

\* ARColorize.apply_color_overlay(frame, mask, color, alpha).  No line
\* looks at alpha's range.  With no pixel selected, frame[mask > 0] has no
\* rows, cv2.addWeighted returns None for an empty array, and storing None
\* into the uint8 array raises TypeError at line 65.
apply_color_overlay(f, m, col, a, up) ==
    IF Selected(m) = {}
    THEN Raises(TypeError)
    ELSE Returns(Overlaid(f, m, col, a, up))

\* The default of the alpha parameter, 0.7, in tenths.
DefaultAlpha == 7

OverlayWidth == 2

OverlayPos == (1..1) \X (1..OverlayWidth)

SamplePixels == {<<0, 0, 0>>, <<37, 120, 200>>}

\* Every gray level in the first pixel, sample pixels in the others.
OverlayFrames ==
    {[t EXCEPT ![<<1, 1>>] = <<v, v, v>>] :
        v \in 0..255, t \in [OverlayPos -> SamplePixels]}

OverlayMasks == [OverlayPos -> {0, 255}] \cup {[p \in OverlayPos |-> 1]}

\* White, coral and sky blue of the presets (start_camera).
OverlayColors == {<<255, 255, 255>>, <<80, 127, 255>>, <<235, 206, 135>>}

\* alpha in tenths: inside [0, 1] and on both sides of it.
Alphas == {-5, 0, 3, 5, DefaultAlpha, 10, 15}

InitOverlay ==
    /\ pc = "overlay"
    /\ outcome = "none"
    /\ InitColorState
    /\ camera = "none"
    /\ \E f \in OverlayFrames :
         /\ heap = [b \in {"cam", "res"} |-> IF b = "cam" THEN f ELSE NoBuffer]
         /\ frame_in = f
    /\ frame = "cam"
    /\ result = None
    /\ mask \in OverlayMasks
    /\ color \in OverlayColors
    /\ alpha \in Alphas
    /\ edges_dilated = None
    /\ color_reads = 0
    /\ written = {White}

\* The body of apply_color_overlay(frame, mask, color, alpha), lines 59-73.
ApplyColorOverlay ==
    /\ pc = "overlay"
    /\ \E up \in SUBSET TiePairs(heap[frame], mask, color, alpha) :
         LET ret == apply_color_overlay(heap[frame], mask, color, alpha, up)
             buf == NdarrayCopy(frame)
         IN  IF ret.exc # ""
             THEN /\ outcome' = ret.exc
                  /\ pc' = "raised"
                  /\ UNCHANGED <<heap, result>>
             ELSE /\ outcome' = "ok"
                  /\ pc' = "overlaid"
                  /\ heap' = [heap EXCEPT ![buf] = ret.val]
                  /\ result' = buf
    /\ UNCHANGED <<selected_color, assigned, hex_color, color_before>>
    /\ UNCHANGED <<camera, frame, frame_in, mask, color, alpha,
                   edges_dilated, color_reads, written>>

NextOverlay == ApplyColorOverlay

SpecOverlay == InitOverlay /\ [][NextOverlay]_vars

(***************************************************************************)
(* detect_wall                                                             *)
(***************************************************************************)
Height == 5
Width == 8

Pos == (1..Height) \X (1..Width)

Clamp(v, lo, hi) == Max(lo, Min(hi, v))

\* cv2.cvtColor(frame, cv2.COLOR_BGR2GRAY) on 8-bit data: the luma weights
\* 0.114, 0.587, 0.299 in 14-bit fixed point, rounded.  (The HSV image of
\* line 32 is never read.)
GrayOf(px) == (1868 * px[1] + 9617 * px[2] + 4899 * px[3] + 8192) \div 16384

BGR2GRAY(f) == Tabulated([p \in DOMAIN f |-> GrayOf(f[p])])

CannyLow == 50
CannyHigh == 150
BrightnessCutoff == 100
KernelSize == 5

\* The pixels some set reaches through 8-neighbour steps inside allowed.
Adjacent8(p, q) == p # q /\ Abs(p[1] - q[1]) <= 1 /\ Abs(p[2] - q[2]) <= 1
Adjacent4(p, q) == Abs(p[1] - q[1]) + Abs(p[2] - q[2]) = 1

RECURSIVE Grow8(_, _)
Grow8(S, allowed) ==
    LET new == {p \in allowed \ S : \E q \in S : Adjacent8(p, q)}
    IN  IF new = {} THEN S ELSE Grow8(S \cup new, allowed)

RECURSIVE Grow4(_, _)
Grow4(S, allowed) ==
    LET new == {p \in allowed \ S : \E q \in S : Adjacent4(p, q)}
    IN  IF new = {} THEN S ELSE Grow4(S \cup new, allowed)

\* cv2.Canny(gray, 50, 150): 3x3 Sobel derivatives with a replicated
\* border, the L1 gradient magnitude, non-maximum suppression along the
\* gradient's direction (the magnitude outside the image is 0), and
\* hysteresis: a local maximum above the high threshold is an edge, one
\* above the low threshold is an edge when 8-connected to an edge.
Canny(gray, low, high) ==
    LET at(y, x) == gray[<<Clamp(y, 1, Height), Clamp(x, 1, Width)>>]
        dx == Tabulated([p \in Pos |->
                 (at(p[1] - 1, p[2] + 1) + 2 * at(p[1], p[2] + 1)
                    + at(p[1] + 1, p[2] + 1))
               - (at(p[1] - 1, p[2] - 1) + 2 * at(p[1], p[2] - 1)
                    + at(p[1] + 1, p[2] - 1))])
        dy == Tabulated([p \in Pos |->
                 (at(p[1] + 1, p[2] - 1) + 2 * at(p[1] + 1, p[2])
                    + at(p[1] + 1, p[2] + 1))
               - (at(p[1] - 1, p[2] - 1) + 2 * at(p[1] - 1, p[2])
                    + at(p[1] - 1, p[2] + 1))])
        mag == Tabulated([p \in Pos |-> Abs(dx[p]) + Abs(dy[p])])
        magAt(y, x) == IF <<y, x>> \in Pos THEN mag[<<y, x>>] ELSE 0
        localMax(p) ==
            LET m == mag[p]
                ax == Abs(dx[p])
                ay == Abs(dy[p]) * 32768
                tg22x == ax * 13573
                tg67x == tg22x + ax * 65536
                s == IF (dx[p] < 0) # (dy[p] < 0) THEN -1 ELSE 1
            IN  IF ay < tg22x
                THEN m > magAt(p[1], p[2] - 1) /\ m >= magAt(p[1], p[2] + 1)
                ELSE IF ay > tg67x
                THEN m > magAt(p[1] - 1, p[2]) /\ m >= magAt(p[1] + 1, p[2])
                ELSE /\ m > magAt(p[1] - 1, p[2] - s)
                     /\ m > magAt(p[1] + 1, p[2] + s)
        candidates == {p \in Pos : mag[p] > low /\ localMax(p)}
        strong == {p \in candidates : mag[p] > high}
        edge == Grow8(strong, candidates)
    IN  Tabulated([p \in Pos |-> IF p \in edge THEN 255 ELSE 0])

\* cv2.threshold(gray, 100, 255, cv2.THRESH_BINARY).
Threshold(gray, cutoff) ==
    Tabulated([p \in DOMAIN gray |-> IF gray[p] > cutoff THEN 255 ELSE 0])

\* The pixels of the image under a k x k kernel anchored at p: the border of
\* a morphological operation never decides its minimum or maximum.
Window(img, p, k) ==
    {q \in DOMAIN img : Abs(q[1] - p[1]) <= k \div 2 /\ Abs(q[2] - p[2]) <= k \div 2}

SetMax(S) == CHOOSE m \in S : \A v \in S : v <= m
SetMin(S) == CHOOSE m \in S : \A v \in S : m <= v

Dilate(img, k) ==
    Tabulated([p \in DOMAIN img |-> SetMax({img[q] : q \in Window(img, p, k)})])
Erode(img, k) ==
    Tabulated([p \in DOMAIN img |-> SetMin({img[q] : q \in Window(img, p, k)})])

\* cv2.morphologyEx with MORPH_CLOSE and MORPH_OPEN.
MorphClose(img, k) == Erode(Dilate(img, k), k)
MorphOpen(img, k) == Dilate(Erode(img, k), k)

\* Bitwise operations on 8-bit values.
RECURSIVE And8(_, _, _)
And8(a, b, bits) ==
    IF bits = 0 THEN 0
    ELSE (a % 2) * (b % 2) + 2 * And8(a \div 2, b \div 2, bits - 1)

\* A mutant of BitwiseNot: the complement is left out.
BitwiseKeep(img) == img

BitwiseNot(img) == Tabulated([p \in DOMAIN img |-> 255 - img[p]])
BitwiseAnd(a, b) == Tabulated([p \in DOMAIN a |-> And8(a[p], b[p], 8)])

\* ARColorize.detect_wall: the wall mask, and the dilated edge map it was
\* cut with.
detect_wall(f) ==
    LET gray == BGR2GRAY(f)
        edges == Canny(gray, CannyLow, CannyHigh)
        thresholded == Threshold(gray, BrightnessCutoff)
        closed == MorphClose(thresholded, KernelSize)
        brightness_mask == MorphOpen(closed, KernelSize)
        dilated == Dilate(edges, KernelSize)
    IN  [wall_mask |-> BitwiseAnd(brightness_mask, BitwiseNot(dilated)),
         edges_dilated |-> dilated]

(***************************************************************************)
(* process_frame and the camera loop                                       *)
(***************************************************************************)
Green == <<0, 255, 0>>

OnRim(p) == p[1] \in {1, Height} \/ p[2] \in {1, Width}

\* cv2.findContours(mask, RETR_EXTERNAL, CHAIN_APPROX_SIMPLE): the border
\* pixels of the mask's regions that face the background reaching the
\* outside of the image; borders of holes are left out.
ExternalBorder(m) ==
    LET zero == {p \in DOMAIN m : m[p] = 0}
        outside == Grow4({p \in zero : OnRim(p)}, zero)
    IN  {p \in Selected(m) : OnRim(p) \/ \E q \in outside : Adjacent4(p, q)}

\* cv2.drawContours(result, contours, -1, (0, 255, 0), 2): a line of
\* thickness 2 reaches one pixel to each side of the border it follows.
Drawn(m) ==
    LET border == ExternalBorder(m)
    IN  border \cup {p \in DOMAIN m : \E q \in border : Adjacent4(p, q)}

DrawContours(img, m) ==
    LET drawn == Drawn(m)
    IN  Tabulated([p \in DOMAIN img |-> IF p \in drawn THEN Green ELSE img[p]])

\* The preset colours of start_camera, by key.
PresetColors ==
    [k \in {"1", "2", "3", "4", "5", "6", "7", "8", "9"} |->
        CASE k = "1" -> <<255, 255, 255>>
          [] k = "2" -> <<220, 248, 255>>
          [] k = "3" -> <<211, 211, 211>>
          [] k = "4" -> <<235, 206, 135>>
          [] k = "5" -> <<152, 255, 152>>
          [] k = "6" -> <<185, 218, 255>>
          [] k = "7" -> <<250, 230, 230>>
          [] k = "8" -> <<80, 127, 255>>
          [] k = "9" -> <<131, 193, 157>>]

\* The keys cv2.waitKey is given in the model; "" is no key.
Keys == {"", "q", "8", "x"}

\* Black, a dark colour (gray level 59) and a bright gray.
FramePalette == {<<0, 0, 0>>, <<30, 70, 50>>, <<200, 200, 200>>}

\* A frame of one colour with a rectangle of another.
RectFrame(bg, fg, y1, y2, x1, x2) ==
    [p \in Pos |-> IF p[1] \in y1..y2 /\ p[2] \in x1..x2 THEN fg ELSE bg]

Rects == {r \in (1..Height) \X (1..Height) \X (1..Width) \X (1..Width) :
             r[1] <= r[2] /\ r[3] <= r[4]}

RectFrames ==
    {[p \in Pos |-> bg] : bg \in FramePalette}
    \cup {RectFrame(c[1], c[2], r[1], r[2], r[3], r[4]) :
            c \in {c \in FramePalette \X FramePalette : c[1] # c[2]}, r \in Rects}

\* A bright wall, a dark room, a wall beside a dark door.
FewFrames ==
    { RectFrame(<<200, 200, 200>>, <<0, 0, 0>>, 1, 0, 1, 0),
      RectFrame(<<0, 0, 0>>, <<0, 0, 0>>, 1, 0, 1, 0),
      RectFrame(<<200, 200, 200>>, <<0, 0, 0>>, 1, Height, 1, 3) }

FramesOf(cam) == IF cam = "rect" THEN RectFrames ELSE FewFrames

InitLoop ==
    /\ pc = "read"
    /\ outcome = "none"
    /\ InitColorState
    /\ heap = [b \in {"cam", "res"} |-> NoBuffer]
    /\ frame = "cam"
    /\ result = None
    /\ frame_in = NoBuffer
    /\ mask = None
    /\ color = None
    /\ alpha = DefaultAlpha
    /\ edges_dilated = None
    /\ color_reads = 0
    /\ written = {White}

InitPipeline == InitLoop /\ camera = "rect"

InitConcurrent == InitLoop /\ camera = "few"

\* ret, frame = self.cap.read() with ret true, and process_frame entered.
CapRead ==
    /\ pc = "read"
    /\ \E f \in FramesOf(camera) :
         /\ heap' = [b \in {"cam", "res"} |-> IF b = "cam" THEN f ELSE NoBuffer]
         /\ frame_in' = f
    /\ frame' = "cam"
    /\ result' = None
    /\ mask' = None
    /\ color' = None
    /\ edges_dilated' = None
    /\ color_reads' = 0
    /\ color_before' = selected_color
    /\ outcome' = "none"
    /\ pc' = "detect"
    /\ UNCHANGED <<selected_color, assigned, hex_color, camera, alpha, written>>

\* ret false: "Failed to grab frame", the loop breaks and the camera stops.
CapReadFails ==
    /\ pc = "read"
    /\ pc' = "stopped"
    /\ UNCHANGED <<selected_color, assigned, hex_color, color_before, outcome>>
    /\ UNCHANGED frameVars

\* wall_mask = self.detect_wall(frame), line 78.
DetectWall ==
    /\ pc = "detect"
    /\ \E d \in {detect_wall(heap[frame])} :
         /\ mask' = d.wall_mask
         /\ edges_dilated' = d.edges_dilated
    /\ pc' = "call_overlay"
    /\ UNCHANGED <<selected_color, assigned, hex_color, color_before, outcome>>
    /\ UNCHANGED <<camera, heap, frame, result, frame_in, color, alpha,
                   color_reads, written>>

\* Line 81 evaluates self.selected_color and calls apply_color_overlay
\* with it and the default alpha.
CallOverlay ==
    /\ pc = "call_overlay"
    /\ color' = selected_color
    /\ color_reads' = color_reads + 1
    /\ alpha' = DefaultAlpha
    /\ pc' = "overlay"
    /\ UNCHANGED <<selected_color, assigned, hex_color, color_before, outcome>>
    /\ UNCHANGED <<camera, heap, frame, result, frame_in, mask,
                   edges_dilated, written>>

\* Lines 84-85: the contours of wall_mask are drawn into result, and
\* process_frame returns it.
FindAndDrawContours ==
    /\ pc = "overlaid"
    /\ heap' = [heap EXCEPT ![result] = DrawContours(heap[result], mask)]
    /\ pc' = "processed"
    /\ UNCHANGED <<selected_color, assigned, hex_color, color_before, outcome>>
    /\ UNCHANGED <<camera, frame, result, frame_in, mask, color, alpha,
                   edges_dilated, color_reads, written>>

\* Lines 122-132: frame and processed are shown side by side, then one key
\* is handled: q ends the loop, a preset key stores its colour.  The
\* iteration's arrays are dead from here on: the next one rebinds the names.
ShowAndWaitKey ==
    /\ pc = "processed"
    /\ \E key \in Keys :
         /\ pc' = IF key = "q" THEN "stopped" ELSE "read"
         /\ IF key \in DOMAIN PresetColors
            THEN /\ selected_color' = StoreColor(selected_color, PresetColors[key])
                 /\ written' = written \cup {PresetColors[key]}
                 /\ assigned' = TRUE
            ELSE UNCHANGED <<selected_color, written, assigned>>
    /\ heap' = [b \in {"cam", "res"} |-> NoBuffer]
    /\ result' = None
    /\ frame_in' = NoBuffer
    /\ mask' = None
    /\ color' = None
    /\ edges_dilated' = None
    /\ color_reads' = 0
    /\ color_before' = selected_color'
    /\ UNCHANGED <<hex_color, outcome, camera, frame, alpha>>

\* set_color run by another thread while the loop runs: its only access to
\* shared state is the store that ends it.
SetColorConcurrently ==
    /\ pc \notin {"stopped", "raised"}
    /\ \E h \in {<<"#", "8", "7", "C", "E", "E", "B">>,
                 <<"Z", "Z", "Z", "Z", "Z", "Z">>} :
         LET parsed == hex_to_bgr(h)
         IN  /\ selected_color' = StoreOrRaise(selected_color, parsed)
             /\ written' = IF parsed.exc # "" THEN written
                           ELSE written \cup {parsed.val}
             /\ assigned' = (assigned \/ parsed.exc = "")
    /\ UNCHANGED <<pc, hex_color, color_before, outcome>>
    /\ UNCHANGED <<camera, heap, frame, result, frame_in, mask, color, alpha,
                   edges_dilated, color_reads>>

NextPipeline ==
    \/ CapRead
    \/ CapReadFails
    \/ DetectWall
    \/ CallOverlay
    \/ ApplyColorOverlay
    \/ FindAndDrawContours
    \/ ShowAndWaitKey

SpecPipeline == InitPipeline /\ [][NextPipeline]_vars

NextConcurrent == NextPipeline \/ SetColorConcurrently

SpecConcurrent == InitConcurrent /\ [][NextConcurrent]_vars

(***************************************************************************)
(* Colour selection: the claims                                            *)
(***************************************************************************)
\* The specification's format: one optional leading '#', then exactly six
\* hexadecimal digits.
StripOneHash(h) == IF h # << >> /\ Head(h) = "#" THEN Tail(h) ELSE h

SixHexDigits(h) ==
    LET s == StripOneHash(h)
    IN  Len(s) = 6 /\ \A i \in 1..6 : IsHexDigit(s[i])

ChannelOf(h, k) ==
    LET s == StripOneHash(h)
    IN  16 * HexDigitValue(s[2 * k - 1]) + HexDigitValue(s[2 * k])

\* C1: set_color fails on every string that is not, after one optional
\* leading '#', exactly six hexadecimal digits; none is accepted as a colour.
C1_RejectsEveryMalformedString ==
    (pc = "returned" /\ ~SixHexDigits(hex_color)) => outcome = ValueError

\* C2: when set_color fails, the selected colour after the call is the
\* selected colour before it.
C2_FailedSetKeepsColor ==
    (pc = "returned" /\ outcome = ValueError) => selected_color = color_before

C2_Witness ==
    /\ pc = "returned"
    /\ outcome = ValueError
    /\ hex_color = <<"Z", "Z", "Z", "Z", "Z", "Z">>
    /\ assigned
    /\ selected_color # White

\* C3: for a valid RRGGBB string, with or without '#', set_color succeeds
\* and the selected colour is <<B, G, R>>, every channel in 0..255 and the
\* value of its two digits; before any set_color the colour is white.
C3_ValidHexGivesBGR ==
    /\ ~assigned => selected_color = <<255, 255, 255>>
    /\ (pc = "returned" /\ SixHexDigits(hex_color)) =>
          /\ outcome = "ok"
          /\ selected_color =
                <<ChannelOf(hex_color, 3), ChannelOf(hex_color, 2),
                  ChannelOf(hex_color, 1)>>
          /\ \A k \in 1..3 : selected_color[k] \in 0..255

C3_Witness ==
    /\ pc = "returned"
    /\ hex_color = <<"#", "F", "F", "7", "F", "5", "0">>
    /\ outcome = "ok"
    /\ selected_color = <<80, 127, 255>>

(***************************************************************************)
(* apply_color_overlay: the claims                                         *)
(***************************************************************************)
AlphaInRange == alpha \in 0..10

\* round((1 - alpha) * o + alpha * c), halves rounded up, alpha in tenths.
RoundedBlend(o, c, a) == ((10 - a) * o + a * c + 5) \div 10

C5_BlendWithinOne ==
    (pc \in {"overlaid", "raised"} /\ AlphaInRange /\ Selected(mask) # {}) =>
        /\ pc = "overlaid"
        /\ \A p \in Selected(mask) : \A k \in 1..3 :
              /\ heap[result][p][k] \in 0..255
              /\ Abs(heap[result][p][k]
                     - RoundedBlend(frame_in[p][k], color[k], alpha)) <= 1

C5_Witness ==
    /\ pc = "overlaid"
    /\ alpha = 7
    /\ \E p \in Selected(mask) : \E k \in 1..3 :
          /\ (3 * frame_in[p][k] + 7 * color[k]) % 10 = 5
          /\ heap[result][p][k] = RoundedBlend(frame_in[p][k], color[k], 7) - 1
          /\ heap[result][p][k] # frame_in[p][k]

\* C6: apply_color_overlay with an alpha outside [0, 1] fails with an
\* invalid-parameter error and produces no output frame.
C6_OutOfRangeAlphaFails ==
    (pc \in {"overlaid", "raised"} /\ ~AlphaInRange) =>
        (pc = "raised" /\ result = None)

(***************************************************************************)
(* process_frame: the claims                                               *)
(***************************************************************************)
AfterDetect == pc \in {"call_overlay", "overlay", "overlaid", "raised", "processed"}

\* C7: process_frame does not mutate its input frame or the selected
\* colour: whether it returns or raises, the caller's frame is pixel for
\* pixel what it was when the call was entered, and so is selected_color;
\* blending and contours are written to a buffer of their own.
C7_InputFrameAndColorKept ==
    (pc \in {"detect", "overlaid"} \/ AfterDetect) =>
        /\ heap[frame] = frame_in
        /\ selected_color = color_before
        /\ pc \in {"overlaid", "processed"} => result # frame

C7_Witness ==
    /\ pc = "processed"
    /\ heap[frame] = frame_in
    /\ \E p \in DOMAIN frame_in : heap[result][p] = Green /\ frame_in[p] # Green
    /\ \E p \in DOMAIN frame_in : heap[result][p] \notin {Green, frame_in[p]}

AllDark(f) == \A p \in DOMAIN f : GrayOf(f[p]) < BrightnessCutoff

\* C8: for a frame whose every pixel is below the brightness cutoff,
\* detect_wall returns an all-zero mask and process_frame completes without
\* error and returns a frame identical to its input.
C8_DarkFrameComesBackUnchanged ==
    (AfterDetect /\ AllDark(frame_in)) =>
        /\ \A p \in DOMAIN mask : mask[p] = 0
        /\ pc # "raised"
        /\ pc = "processed" => heap[result] = frame_in

\* C9: in the mask detect_wall returns, no pixel is set where the dilated
\* edge map is set, every pixel is 0 or 255, and the mask has the frame's
\* width and height.
C9_MaskBinaryAndOffEdges ==
    AfterDetect =>
        /\ DOMAIN mask = DOMAIN frame_in
        /\ \A p \in DOMAIN mask :
              /\ mask[p] \in {0, 255}
              /\ edges_dilated[p] # 0 => mask[p] = 0

C9_Witness ==
    /\ pc = "call_overlay"
    /\ \E p \in DOMAIN mask :
          /\ edges_dilated[p] # 0
          /\ GrayOf(frame_in[p]) > BrightnessCutoff
          /\ mask[p] = 0
    /\ \E p \in DOMAIN mask : mask[p] = 255 /\ edges_dilated[p] = 0

\* C10: one process_frame reads the selected colour exactly once; every
\* masked pixel of its output is blended with one and the same colour, a
\* value some set_color, preset or the default stored whole, whatever
\* set_color or a preset key does meanwhile.
C10_OneWholeColorPerFrame ==
    pc \in {"overlaid", "processed"} =>
        /\ color_reads = 1
        /\ \E c \in written :
             \E up \in SUBSET TiePairs(frame_in, mask, c, DefaultAlpha) :
               \A p \in Selected(mask) :
                  \/ heap[result][p] = BlendPixel(frame_in[p], c, DefaultAlpha, up)
                  \/ pc = "processed" /\ p \in Drawn(mask)

C10_Witness ==
    /\ pc = "overlaid"
    /\ selected_color # color
    /\ color # White
    /\ \E p \in Selected(mask) : heap[result][p] # frame_in[p]

=============================================================================
